---- MODULE Spec2Model ----
(***************************************************************************)
(* A model of src/script.js: the browser client that sends a prompt to a   *)
(* text-generation endpoint (generateResponse, with its retry loop),       *)
(* renders the result (displayResult) and offers a "summarize the last     *)
(* result" action (handleSummarize).                                       *)
(*                                                                         *)
(* Four specifications share the variables and the actions:                *)
(*   Spec          the page: the two checkboxes, the form handler, the     *)
(*                 summarize handler, and their generateResponse calls;    *)
(*   SpecClient    generateResponse called directly with any arguments,    *)
(*                 against a provider that answers anything;               *)
(*   SpecClientFair  the same call, every fetch and timer eventually done; *)
(*   SpecResolver  displayResult called directly with any arguments, from  *)
(*                 any prior page state.                                   *)
(***************************************************************************)
EXTENDS Integers, Sequences, FiniteSets, TLC

(***************************************************************************)
(* JavaScript values.  A value is a record [t, v]: t is its type and v its *)
(* text (the string itself, or a number's decimal text).                   *)
(***************************************************************************)
Undefined == [t |-> "undefined", v |-> ""]

Str(s) == [t |-> "string", v |-> s]

Num(s) == [t |-> "number", v |-> s]

\* ToBoolean: undefined, '' and 0 are falsy.
Truthy(x) ==
    CASE x.t = "undefined" -> FALSE
      [] x.t = "string" -> x.v # ""
      [] x.t = "number" -> x.v # "0"

\* ToString, as a template literal `${x}` applies it.
JSToString(x) == IF x.t = "undefined" THEN "undefined" ELSE x.v

(***************************************************************************)
(* Texts the provider may return, and the inputs the user may type.        *)
(***************************************************************************)
TextPlain == "4."

TextBold == "**4**"

TextLines == "a\nb"

TextOops == "oops"

TextJson ==
    "{\"reasoning_steps\":[\"a\",\"b\"],\"final_summary\":\"Answer: 4\",\"confidence_score\":95}"

TextJsonNoSummary == "{\"reasoning_steps\":[]}"

TextJsonEmptySummary == "{\"final_summary\":\"\"}"

TextJsonNumberSummary == "{\"final_summary\":7}"

TextJsonNull == "null"

TextJsonNumber == "4"

\* Every response text of the model.
Texts ==
    { TextPlain, TextBold, TextLines, TextOops, TextJson, TextJsonNoSummary,
      TextJsonEmptySummary, TextJsonNumberSummary, TextJsonNull, TextJsonNumber }

\* The response texts the page's specification draws from.
PageTexts == { TextPlain, TextJson, TextJsonNoSummary }

\* The summary texts the page's specification draws from.
SummaryTexts == { "Sum\nmary" }

\* What the user may have typed in the query and system-instruction fields.
QueryInputs == { "", "  ", " What is 2+2? " }

SystemInputs == { "", " Be brief. " }

(***************************************************************************)
(* String.prototype.trim on the inputs above.                              *)
(***************************************************************************)
Trim(s) ==
    CASE s = "  " -> ""
      [] s = " What is 2+2? " -> "What is 2+2?"
      [] s = " Be brief. " -> "Be brief."
      [] OTHER -> s

(***************************************************************************)
(* JSON.parse on the texts above: [t, final_summary].  t = "SyntaxError"   *)
(* when JSON.parse throws, else the kind of the parsed value;              *)
(* final_summary is the parsed object's property (Undefined when the value *)
(* has none).                                                              *)
(***************************************************************************)
JSONParse(text) ==
    CASE text = TextJson -> [t |-> "object", final_summary |-> Str("Answer: 4")]
      [] text = TextJsonNoSummary -> [t |-> "object", final_summary |-> Undefined]
      [] text = TextJsonEmptySummary -> [t |-> "object", final_summary |-> Str("")]
      [] text = TextJsonNumberSummary -> [t |-> "object", final_summary |-> Num("7")]
      [] text = TextJsonNull -> [t |-> "null", final_summary |-> Undefined]
      [] text = TextJsonNumber -> [t |-> "number", final_summary |-> Undefined]
      [] OTHER -> [t |-> "SyntaxError", final_summary |-> Undefined]

\* jsonObject["final_summary"]: a property read of null throws a TypeError.
GetFinalSummary(json) ==
    IF json.t = "null"
    THEN [throws |-> TRUE, value |-> Undefined]
    ELSE [throws |-> FALSE, value |-> json.final_summary]

(***************************************************************************)
(* The markdown-to-HTML replaces of displayResult, and the \n -> <br>      *)
(* replace of handleSummarize, on the texts above.                         *)
(***************************************************************************)
MarkdownToHtml(text) ==
    CASE text = TextBold -> "<strong>4</strong>"
      [] text = TextLines -> "a<br>b"
      [] OTHER -> text

NewlinesToBr(text) ==
    CASE text = TextLines -> "a<br>b"
      [] text = "Sum\nmary" -> "Sum<br>mary"
      [] OTHER -> text

(***************************************************************************)
(* generateResponse: the request payload.                                  *)
(***************************************************************************)
structuredSchema == "structuredSchema"

SearchTool == "google_search"

GenerationConfig ==
    [responseMimeType |-> "application/json", responseSchema |-> structuredSchema]

\* An optional key of the payload is a sequence: <<>> when the key is absent.
BuildPayload(userQuery, systemPrompt, isGrounded, isStructured) ==
    [ contents |-> userQuery,
      systemInstruction |-> systemPrompt,
      tools |-> IF isGrounded THEN <<SearchTool>> ELSE <<>>,
      generationConfig |-> IF isStructured THEN <<GenerationConfig>> ELSE <<>> ]

NoPayload == [contents |-> "", systemInstruction |-> "", tools |-> <<>>, generationConfig |-> <<>>]

NoArgs == [userQuery |-> "", systemPrompt |-> "", isGrounded |-> FALSE, isStructured |-> FALSE]

(***************************************************************************)
(* generateResponse: what the provider answers to one fetch.               *)
(*   kind "reject"   fetch rejects (a transport failure);                  *)
(*   kind "status"   a response whose ok is false;                         *)
(*   kind "badbody"  an ok response whose body response.json() rejects;    *)
(*   kind "body"     an ok response with a JSON body: candidates[0] there  *)
(*                   or not, its content.parts[0].text (Undefined when the *)
(*                   part or its text is missing), its groundingMetadata   *)
(*                   ("absent", "noAttributions": there without            *)
(*                   groundingAttributions, or "attributions").            *)
(* An attribution is [web, uri, title]: web is whether attribution.web     *)
(* exists; uri and title are Undefined when missing.                       *)
(***************************************************************************)
MaxAttributions == 3

AttrA == [web |-> TRUE, uri |-> Str("https://a.example"), title |-> Str("A")]

AttrB == [web |-> TRUE, uri |-> Str("https://b.example"), title |-> Str("B")]

AttrOnlyUri == [web |-> TRUE, uri |-> Str("https://c.example"), title |-> Undefined]

AttrOnlyTitle == [web |-> TRUE, uri |-> Undefined, title |-> Str("D")]

AttrEmptyTitle == [web |-> TRUE, uri |-> Str("https://e.example"), title |-> Str("")]

AttrNoWeb == [web |-> FALSE, uri |-> Undefined, title |-> Undefined]

Attributions == { AttrA, AttrB, AttrOnlyUri, AttrOnlyTitle, AttrEmptyTitle, AttrNoWeb }

AttributionLists == UNION { [1..n -> Attributions] : n \in 0..MaxAttributions }

FailedResponse(kind) ==
    [ kind |-> kind, hasCandidate |-> FALSE, text |-> Undefined,
      groundingMetadata |-> "absent", attributions |-> <<>> ]

BodyResponse(hasCandidate, text, groundingMetadata, attributions) ==
    [ kind |-> "body", hasCandidate |-> hasCandidate, text |-> text,
      groundingMetadata |-> groundingMetadata, attributions |-> attributions ]

FailingResponses ==
    { FailedResponse("reject"), FailedResponse("status"), FailedResponse("badbody"),
      BodyResponse(FALSE, Undefined, "absent", <<>>),
      BodyResponse(TRUE, Undefined, "absent", <<>>),
      BodyResponse(TRUE, Str(""), "attributions", <<AttrA>>) }

\* The answers SpecClient's provider draws from.
ClientResponses ==
    FailingResponses
    \cup { BodyResponse(TRUE, Str(TextPlain), "absent", <<>>),
           BodyResponse(TRUE, Str(TextJson), "noAttributions", <<>>) }
    \cup { BodyResponse(TRUE, Str(TextPlain), "attributions", as) : as \in AttributionLists }

\* The answers the page's provider draws from, to the primary action ...
PageResponses ==
    FailingResponses
    \cup { BodyResponse(TRUE, Str(t), "absent", <<>>) : t \in PageTexts }
    \cup { BodyResponse(TRUE, Str(TextPlain), "attributions", <<AttrA, AttrOnlyUri>>) }

\* ... and to the summarize action.
SummaryResponses ==
    FailingResponses
    \cup { BodyResponse(TRUE, Str(t), "absent", <<>>) : t \in SummaryTexts }

\* attribution => ({uri: attribution.web?.uri, title: attribution.web?.title})
MapAttribution(attribution) ==
    [ uri |-> IF attribution.web THEN attribution.uri ELSE Undefined,
      title |-> IF attribution.web THEN attribution.title ELSE Undefined ]

\* Mutation of KeepSource: the title is not tested.
KeepSourceUriOnly(source) == Truthy(source.uri)

\* source => source.uri && source.title
KeepSource(source) == Truthy(source.uri) /\ Truthy(source.title)

ExtractSources(resp) ==
    IF resp.groundingMetadata = "attributions"
    THEN SelectSeq([i \in 1..Len(resp.attributions) |-> MapAttribution(resp.attributions[i])],
                   KeepSource)
    ELSE <<>>

\* Mutation of TryAttempt: the sources are extracted only when isGrounded.
TryAttemptIfGrounded(args, resp) ==
    LET Thrown(error) == [ok |-> FALSE, error |-> error, text |-> "", sources |-> <<>>]
    IN  CASE resp.kind = "reject" -> Thrown("NetworkError")
          [] resp.kind = "status" -> Thrown("HttpStatusError")
          [] resp.kind = "badbody" -> Thrown("BodyError")
          [] ~resp.hasCandidate -> Thrown("NoCandidateError")
          [] ~Truthy(resp.text) -> Thrown("EmptyContentError")
          [] OTHER -> [ ok |-> TRUE, error |-> "", text |-> resp.text.v,
                        sources |-> IF args.isGrounded THEN ExtractSources(resp) ELSE <<>> ]

\* Mutation of TryAttempt: an empty text is returned as a result.
TryAttemptEmptyTextOk(args, resp) ==
    LET Thrown(error) == [ok |-> FALSE, error |-> error, text |-> "", sources |-> <<>>]
    IN  CASE resp.kind = "reject" -> Thrown("NetworkError")
          [] resp.kind = "status" -> Thrown("HttpStatusError")
          [] resp.kind = "badbody" -> Thrown("BodyError")
          [] ~resp.hasCandidate -> Thrown("NoCandidateError")
          [] resp.text.t = "undefined" -> Thrown("EmptyContentError")
          [] OTHER -> [ ok |-> TRUE, error |-> "", text |-> resp.text.v,
                        sources |-> ExtractSources(resp) ]

\* One pass of the try block over the provider's answer, with the call's
\* arguments in scope: the value returned, or the error thrown into the catch
\* block.  The block reads none of the arguments.
TryAttempt(args, resp) ==
    LET Thrown(error) == [ok |-> FALSE, error |-> error, text |-> "", sources |-> <<>>]
    IN  CASE resp.kind = "reject" -> Thrown("NetworkError")
          [] resp.kind = "status" -> Thrown("HttpStatusError")
          [] resp.kind = "badbody" -> Thrown("BodyError")
          [] ~resp.hasCandidate -> Thrown("NoCandidateError")
          [] ~Truthy(resp.text) -> Thrown("EmptyContentError")
          [] OTHER -> [ ok |-> TRUE, error |-> "", text |-> resp.text.v,
                        sources |-> ExtractSources(resp) ]

maxRetries == 5

\* Math.pow(2, retryCount) * 1000
Delay(retryCount) == (2 ^ retryCount) * 1000

MaxRetriesMessage == "Max retries reached. Failed to generate content."

\* Mutation of TerminalError: the caught error is attached as the cause.
TerminalErrorWrapping(lastError) == [message |-> MaxRetriesMessage, cause |-> lastError]

\* The error thrown when the attempt that fails is the last one; lastError is the
\* error the catch block caught.
TerminalError(lastError) == [message |-> MaxRetriesMessage, cause |-> "none"]

\* while (retryCount < maxRetries)
LoopContinues(retryCount) == retryCount < maxRetries

\* Mutation of RetriesExhausted: the catch block never throws.
RetriesExhaustedNever(retryCount) == FALSE

\* Mutation of RetriesExhausted: > for >=.
RetriesExhaustedOffByOne(retryCount) == retryCount > maxRetries

\* if (retryCount >= maxRetries) throw
RetriesExhausted(retryCount) == retryCount >= maxRetries

(***************************************************************************)
(* The state.                                                              *)
(***************************************************************************)
VARIABLES
    groundingChecked,        \* #google-grounding .checked
    structuredChecked,       \* #structured-output .checked
    jsonSchemaHidden,        \* #json-schema-display has class hidden
    generateButtonDisabled,  \* #generate-button .disabled
    buttonText,              \* #button-text .textContent
    loadingIndicatorHidden,  \* #loading-indicator has class hidden
    responseContainer,       \* #response-container .innerHTML: [kind, text]
    citationContainerHidden, \* #citation-container has class hidden
    citations,               \* the links of #citations, in order
    summarySectionHidden,    \* #summary-section has class hidden
    summaryContainerHidden,  \* #summary-container has class hidden
    summaryText,             \* #summary-text .innerHTML: [kind, text]
    summarizeBtnDisabled,    \* #summarize-button .disabled
    summaryLoadingHidden,    \* #summary-loading has class hidden
    alertOpen,               \* the alert() of handleSummarize is showing
    currentResponse,         \* let currentResponse (a JavaScript value)
    currentSystemPrompt,     \* let currentSystemPrompt
    gen,                     \* the generateResponse call of each caller
    outcome,                 \* how the last direct generateResponse call settled
    lastResolve,             \* the last direct displayResult call: its arguments, a
                             \* tick that flips at each call, and whether it repeats
                             \* the arguments of the call before
    summaryOrigin            \* the last handleSummarize call that issued a request:
                             \* its summaryPrompt, whether a primary call was in
                             \* flight when it started, and whether its summary is
                             \* the one in #summary-text

checkboxVars == <<groundingChecked, structuredChecked, jsonSchemaHidden>>

buttonVars == <<generateButtonDisabled, buttonText, loadingIndicatorHidden>>

resultVars ==
    <<responseContainer, citationContainerHidden, citations, summarySectionHidden,
      currentResponse>>

summaryVars == <<summaryText, summarizeBtnDisabled, summaryLoadingHidden>>

harnessVars == <<outcome, lastResolve, summaryOrigin>>

vars ==
    <<checkboxVars, buttonVars, resultVars, summaryVars, summaryContainerHidden,
      alertOpen, currentSystemPrompt, gen, harnessVars>>

\* The callers of generateResponse: handleFormSubmit, handleSummarize, and a
\* direct call.
Callers == { "primary", "summary", "direct" }

\* No call: the locals of a call that is not running.
IdleGen ==
    [ pc |-> "idle", args |-> NoArgs, payload |-> NoPayload, retryCount |-> 0,
      attempts |-> 0, delays |-> <<>> ]

NoOutcome ==
    [ status |-> "none", args |-> NoArgs, text |-> "", sources |-> <<>>,
      error |-> [message |-> "", cause |-> "none"], lastError |-> "",
      response |-> FailedResponse("none"), attempts |-> 0, delays |-> <<>> ]

NoResolve ==
    [ called |-> FALSE, tick |-> 0, repeat |-> FALSE, text |-> "", sources |-> <<>>,
      isStructured |-> FALSE ]

NoOrigin == [prompt |-> "", duringPrimary |-> FALSE, shown |-> FALSE]

Html(kind, text) == [kind |-> kind, text |-> text]

\* The page as the script finds it: nothing checked, nothing shown, no call.
InitPage ==
    /\ groundingChecked = FALSE
    /\ structuredChecked = FALSE
    /\ jsonSchemaHidden = TRUE
    /\ generateButtonDisabled = FALSE
    /\ buttonText = "Generate Response"
    /\ loadingIndicatorHidden = TRUE
    /\ responseContainer = Html("initial", "")
    /\ citationContainerHidden = TRUE
    /\ citations = <<>>
    /\ summarySectionHidden = TRUE
    /\ summaryContainerHidden = TRUE
    /\ summaryText = Html("initial", "")
    /\ summarizeBtnDisabled = FALSE
    /\ summaryLoadingHidden = TRUE
    /\ alertOpen = FALSE
    /\ currentResponse = Str("")
    /\ currentSystemPrompt = ""
    /\ gen = [c \in Callers |-> IdleGen]
    /\ outcome = NoOutcome
    /\ lastResolve = NoResolve
    /\ summaryOrigin = NoOrigin

Init == InitPage

(***************************************************************************)
(* The checkbox listeners.  A click toggles the box and then fires its     *)
(* change listener; setting .checked from the script fires no listener.    *)
(***************************************************************************)
ToggleStructured ==
    /\ ~alertOpen
    /\ structuredChecked' = ~structuredChecked
    /\ IF structuredChecked'
       THEN jsonSchemaHidden' = FALSE /\ groundingChecked' = FALSE
       ELSE jsonSchemaHidden' = TRUE /\ UNCHANGED groundingChecked
    /\ UNCHANGED <<buttonVars, resultVars, summaryVars, summaryContainerHidden,
                   alertOpen, currentSystemPrompt, gen, harnessVars>>

\* Mutation of ToggleGrounding: checking grounding leaves structured alone.
ToggleGroundingKeepsStructured ==
    /\ ~alertOpen
    /\ groundingChecked' = ~groundingChecked
    /\ UNCHANGED <<structuredChecked, jsonSchemaHidden>>
    /\ UNCHANGED <<buttonVars, resultVars, summaryVars, summaryContainerHidden,
                   alertOpen, currentSystemPrompt, gen, harnessVars>>

ToggleGrounding ==
    /\ ~alertOpen
    /\ groundingChecked' = ~groundingChecked
    /\ IF groundingChecked'
       THEN structuredChecked' = FALSE /\ jsonSchemaHidden' = TRUE
       ELSE UNCHANGED <<structuredChecked, jsonSchemaHidden>>
    /\ UNCHANGED <<buttonVars, resultVars, summaryVars, summaryContainerHidden,
                   alertOpen, currentSystemPrompt, gen, harnessVars>>

(***************************************************************************)
(* setUILoading: the generate button and its indicator; when loading, also *)
(* the "Thinking..." placeholder and the citation container.               *)
(***************************************************************************)
\* Mutation of setUILoading: the button is never disabled.
setUILoadingButtonStaysEnabled(isLoading) ==
    /\ generateButtonDisabled' = FALSE
    /\ IF isLoading
       THEN /\ buttonText' = "Generating..."
            /\ loadingIndicatorHidden' = FALSE
            /\ responseContainer' = Html("loading", "Thinking...")
            /\ citationContainerHidden' = TRUE
       ELSE /\ buttonText' = "Generate Response"
            /\ loadingIndicatorHidden' = TRUE

setUILoading(isLoading) ==
    /\ generateButtonDisabled' = isLoading
    /\ IF isLoading
       THEN /\ buttonText' = "Generating..."
            /\ loadingIndicatorHidden' = FALSE
            /\ responseContainer' = Html("loading", "Thinking...")
            /\ citationContainerHidden' = TRUE
       ELSE /\ buttonText' = "Generate Response"
            /\ loadingIndicatorHidden' = TRUE

(***************************************************************************)
(* generateResponse, up to its first await: the payload is built, the loop *)
(* is entered (0 < maxRetries) and the first fetch is issued.              *)
(***************************************************************************)
generateResponse(c, userQuery, systemPrompt, isGrounded, isStructured) ==
    gen' = [gen EXCEPT ![c] =
              [ pc |-> "fetch",
                args |-> [ userQuery |-> userQuery, systemPrompt |-> systemPrompt,
                           isGrounded |-> isGrounded, isStructured |-> isStructured ],
                payload |-> BuildPayload(userQuery, systemPrompt, isGrounded, isStructured),
                retryCount |-> 0,
                attempts |-> 1,
                delays |-> <<>> ]]

(***************************************************************************)
(* displayResult.                                                          *)
(***************************************************************************)
\* Mutation of RenderStructured: currentResponse is not set to final_summary.
RenderStructuredKeepsJson(text) ==
    LET jsonObject == JSONParse(text)
        finalSummary == GetFinalSummary(jsonObject)
    IN  IF jsonObject.t = "SyntaxError" \/ finalSummary.throws
        THEN [html |-> Html("parse_error", text), response |-> Str(text)]
        ELSE [ html |-> Html("code_block", JSToString(finalSummary.value)),
               response |-> Str(text) ]

\* Mutation of RenderStructured: currentResponse is stored only after the parse.
RenderStructuredUnsetOnFailure(text) ==
    LET jsonObject == JSONParse(text)
        finalSummary == GetFinalSummary(jsonObject)
    IN  IF jsonObject.t = "SyntaxError" \/ finalSummary.throws
        THEN [html |-> Html("parse_error", text), response |-> currentResponse]
        ELSE [ html |-> Html("code_block", JSToString(finalSummary.value)),
               response |-> finalSummary.value ]

\* The structured branch: what is written to #response-container and what is
\* left in currentResponse (set to text before the try block).
RenderStructured(text) ==
    LET jsonObject == JSONParse(text)
        finalSummary == GetFinalSummary(jsonObject)
    IN  IF jsonObject.t = "SyntaxError" \/ finalSummary.throws
        THEN [html |-> Html("parse_error", text), response |-> Str(text)]
        ELSE [ html |-> Html("code_block", JSToString(finalSummary.value)),
               response |-> finalSummary.value ]

\* The plain branch.
RenderPlain(text) == [html |-> Html("paragraph", MarkdownToHtml(text)), response |-> Str(text)]

\* The links appended to #citations, one per source.
CitationLinks(sources) ==
    [ i \in 1..Len(sources) |->
        [ href |-> JSToString(sources[i].uri), index |-> i,
          title |-> JSToString(sources[i].title) ] ]

\* Mutation of CitationsAfter: #citations is not emptied first.
CitationsAfterAppending(sources) == citations \o CitationLinks(sources)

\* #citations after the call: emptied first, then one link per source.
CitationsAfter(sources) == CitationLinks(sources)

displayResult(text, sources, isStructured) ==
    LET rendered == IF isStructured THEN RenderStructured(text) ELSE RenderPlain(text)
    IN  /\ citations' = CitationsAfter(sources)
        /\ citationContainerHidden' = ~(Len(sources) > 0)
        /\ summaryContainerHidden' = TRUE
        /\ summarySectionHidden' = FALSE
        /\ currentResponse' = rendered.response
        /\ responseContainer' = rendered.html

(***************************************************************************)
(* handleFormSubmit, up to its await.  The submit control is the generate  *)
(* button: a disabled button submits nothing.                              *)
(***************************************************************************)
\* Mutation of RejectsQuery: the check is missing.
RejectsQueryNever(userQuery) == FALSE

\* if (!userQuery): the query is rejected
RejectsQuery(userQuery) == userQuery = ""

handleFormSubmit(rawQuery, rawSystem) ==
    LET userQuery == Trim(rawQuery)
        systemPrompt == Trim(rawSystem)
    IN  /\ ~alertOpen
        /\ ~generateButtonDisabled
        /\ IF RejectsQuery(userQuery)
           THEN /\ responseContainer' = Html("query_error", "Please enter a user query.")
                /\ UNCHANGED <<checkboxVars, buttonVars, citationContainerHidden, citations,
                               summarySectionHidden, currentResponse, summaryVars,
                               summaryContainerHidden, alertOpen, currentSystemPrompt, gen,
                               harnessVars>>
           ELSE /\ currentSystemPrompt' = systemPrompt
                /\ setUILoading(TRUE)
                /\ generateResponse("primary", userQuery, systemPrompt,
                                    groundingChecked, structuredChecked)
                /\ UNCHANGED <<checkboxVars, citations, summarySectionHidden,
                               currentResponse, summaryVars, summaryContainerHidden,
                               alertOpen, harnessVars>>

(***************************************************************************)
(* handleSummarize, up to its await, and closeSummary.  alert() is modal:  *)
(* the page runs nothing until it is dismissed.                            *)
(***************************************************************************)
SummaryPrompt(response) ==
    "Please provide a concise summary (2-3 sentences) of the following text:\n\n"
        \o JSToString(response)

\* Mutation of SummarizerSystemPrompt: the stored system prompt is sent.
SummarizerSystemPromptStored == currentSystemPrompt

SummarizerSystemPrompt == "You are a helpful assistant that creates concise, clear summaries."

\* Mutation of NothingToSummarize: === '' for falsy.
NothingToSummarizeStrict(response) == response = Str("")

\* if (!currentResponse): there is nothing to summarize
NothingToSummarize(response) == ~Truthy(response)

\* Mutation of handleSummarize: it does nothing while a primary call is in
\* flight.
handleSummarizeWaitsForPrimary ==
    /\ ~alertOpen
    /\ ~summarizeBtnDisabled
    /\ gen["primary"].pc = "idle"
    /\ IF NothingToSummarize(currentResponse)
       THEN /\ alertOpen' = TRUE
            /\ UNCHANGED <<checkboxVars, buttonVars, resultVars, summaryVars,
                           summaryContainerHidden, currentSystemPrompt, gen, harnessVars>>
       ELSE /\ summarizeBtnDisabled' = TRUE
            /\ summaryLoadingHidden' = FALSE
            /\ generateResponse("summary", SummaryPrompt(currentResponse),
                                SummarizerSystemPrompt, FALSE, FALSE)
            /\ summaryOrigin' = [ prompt |-> SummaryPrompt(currentResponse),
                                  duringPrimary |-> gen["primary"].pc # "idle",
                                  shown |-> FALSE ]
            /\ UNCHANGED <<checkboxVars, buttonVars, resultVars, summaryText,
                           summaryContainerHidden, alertOpen, currentSystemPrompt,
                           outcome, lastResolve>>

handleSummarize ==
    /\ ~alertOpen
    /\ ~summarizeBtnDisabled
    /\ IF NothingToSummarize(currentResponse)
       THEN /\ alertOpen' = TRUE
            /\ UNCHANGED <<checkboxVars, buttonVars, resultVars, summaryVars,
                           summaryContainerHidden, currentSystemPrompt, gen, harnessVars>>
       ELSE /\ summarizeBtnDisabled' = TRUE
            /\ summaryLoadingHidden' = FALSE
            /\ generateResponse("summary", SummaryPrompt(currentResponse),
                                SummarizerSystemPrompt, FALSE, FALSE)
            /\ summaryOrigin' = [ prompt |-> SummaryPrompt(currentResponse),
                                  duringPrimary |-> gen["primary"].pc # "idle",
                                  shown |-> FALSE ]
            /\ UNCHANGED <<checkboxVars, buttonVars, resultVars, summaryText,
                           summaryContainerHidden, alertOpen, currentSystemPrompt,
                           outcome, lastResolve>>

DismissAlert ==
    /\ alertOpen
    /\ alertOpen' = FALSE
    /\ UNCHANGED <<checkboxVars, buttonVars, resultVars, summaryVars,
                   summaryContainerHidden, currentSystemPrompt, gen, harnessVars>>

closeSummary ==
    /\ ~alertOpen
    /\ summaryContainerHidden' = TRUE
    /\ UNCHANGED <<checkboxVars, buttonVars, resultVars, summaryVars, alertOpen,
                   currentSystemPrompt, gen, harnessVars>>

(***************************************************************************)
(* What each caller does when its generateResponse call settles: the rest  *)
(* of the handler (try, catch, finally), or, for a direct call, keeping    *)
(* the outcome.                                                            *)
(***************************************************************************)
DestructureMessage == "Cannot destructure property 'text' of undefined."

\* handleFormSubmit after the await: displayResult, then finally.
PrimaryFulfilled(text, sources) ==
    /\ displayResult(text, sources, gen["primary"].args.isStructured)
    /\ setUILoading(FALSE)
    /\ UNCHANGED <<checkboxVars, summaryVars, alertOpen, currentSystemPrompt, harnessVars>>

\* Mutation of PrimaryRejected: the finally block is missing.
PrimaryRejectedStaysLoading(message) ==
    /\ responseContainer' = Html("generation_failed", message)
    /\ UNCHANGED <<checkboxVars, buttonVars, citationContainerHidden, citations,
                   summarySectionHidden, currentResponse, summaryVars,
                   summaryContainerHidden, alertOpen, currentSystemPrompt, harnessVars>>

\* Mutation of PrimaryRejected: the catch block clears currentResponse.
PrimaryRejectedClearsResponse(message) ==
    /\ responseContainer' = Html("generation_failed", message)
    /\ currentResponse' = Str("")
    /\ setUILoading(FALSE)
    /\ UNCHANGED <<checkboxVars, citationContainerHidden, citations, summarySectionHidden,
                   summaryVars, summaryContainerHidden, alertOpen, currentSystemPrompt,
                   harnessVars>>

\* handleFormSubmit after the await: catch, then finally.
PrimaryRejected(message) ==
    /\ responseContainer' = Html("generation_failed", message)
    /\ setUILoading(FALSE)
    /\ UNCHANGED <<checkboxVars, citationContainerHidden, citations, summarySectionHidden,
                   currentResponse, summaryVars, summaryContainerHidden, alertOpen,
                   currentSystemPrompt, harnessVars>>

\* Mutation of SummaryFulfilled: the summary is also stored as the current
\* response.
SummaryFulfilledResolves(text) ==
    /\ summaryText' = Html("summary", NewlinesToBr(text))
    /\ summaryContainerHidden' = FALSE
    /\ summarizeBtnDisabled' = FALSE
    /\ summaryLoadingHidden' = TRUE
    /\ currentResponse' = Str(text)
    /\ summaryOrigin' = [summaryOrigin EXCEPT !.shown = TRUE]
    /\ UNCHANGED <<checkboxVars, buttonVars, responseContainer, citationContainerHidden,
                   citations, summarySectionHidden, alertOpen, currentSystemPrompt,
                   outcome, lastResolve>>

\* handleSummarize after the await: the summary is shown, then finally.
SummaryFulfilled(text) ==
    /\ summaryText' = Html("summary", NewlinesToBr(text))
    /\ summaryContainerHidden' = FALSE
    /\ summarizeBtnDisabled' = FALSE
    /\ summaryLoadingHidden' = TRUE
    /\ summaryOrigin' = [summaryOrigin EXCEPT !.shown = TRUE]
    /\ UNCHANGED <<checkboxVars, buttonVars, resultVars, alertOpen, currentSystemPrompt,
                   outcome, lastResolve>>

\* handleSummarize after the await: catch, then finally.
SummaryRejected(message) ==
    /\ summaryText' = Html("summary_failed", message)
    /\ summaryContainerHidden' = FALSE
    /\ summarizeBtnDisabled' = FALSE
    /\ summaryLoadingHidden' = TRUE
    /\ summaryOrigin' = NoOrigin
    /\ UNCHANGED <<checkboxVars, buttonVars, resultVars, alertOpen, currentSystemPrompt,
                   outcome, lastResolve>>

\* A direct call: the settled promise, the last error the call caught, and the
\* fetches and waits it made.
DirectSettled(status, text, sources, error, lastError, resp) ==
    /\ outcome' = [ status |-> status, args |-> gen["direct"].args, text |-> text,
                    sources |-> sources, error |-> error, lastError |-> lastError,
                    response |-> resp, attempts |-> gen["direct"].attempts,
                    delays |-> gen["direct"].delays ]
    /\ UNCHANGED <<checkboxVars, buttonVars, resultVars, summaryVars,
                   summaryContainerHidden, alertOpen, currentSystemPrompt, lastResolve,
                   summaryOrigin>>

Fulfilled(c, text, sources, resp) ==
    CASE c = "primary" -> PrimaryFulfilled(text, sources)
      [] c = "summary" -> SummaryFulfilled(text)
      [] c = "direct" ->
            DirectSettled("fulfilled", text, sources, [message |-> "", cause |-> "none"],
                          "", resp)

Rejected(c, error, lastError, resp) ==
    CASE c = "primary" -> PrimaryRejected(error.message)
      [] c = "summary" -> SummaryRejected(error.message)
      [] c = "direct" -> DirectSettled("rejected", "", <<>>, error, lastError, resp)

\* The loop ends without a return: the promise resolves with undefined, which
\* the handlers' destructuring turns into a TypeError.
ReturnedUndefined(c) ==
    CASE c = "primary" -> PrimaryRejected(DestructureMessage)
      [] c = "summary" -> SummaryRejected(DestructureMessage)
      [] c = "direct" ->
            DirectSettled("undefined", "", <<>>, [message |-> "", cause |-> "none"], "",
                          FailedResponse("none"))

(***************************************************************************)
(* generateResponse: one pass of the loop body, from the provider's answer *)
(* to the return, the throw, or the start of the wait.                     *)
(***************************************************************************)
Attempt(c, resp) ==
    /\ ~alertOpen
    /\ gen[c].pc = "fetch"
    /\ LET tried == TryAttempt(gen[c].args, resp)
           retryCount == gen[c].retryCount + 1
       IN  IF tried.ok
           THEN /\ gen' = [gen EXCEPT ![c] = IdleGen]
                /\ Fulfilled(c, tried.text, tried.sources, resp)
           ELSE IF RetriesExhausted(retryCount)
                THEN /\ gen' = [gen EXCEPT ![c] = IdleGen]
                     /\ Rejected(c, TerminalError(tried.error), tried.error, resp)
                ELSE /\ gen' = [gen EXCEPT ![c].pc = "wait",
                                           ![c].retryCount = retryCount,
                                           ![c].delays = Append(@, Delay(retryCount))]
                     /\ UNCHANGED <<checkboxVars, buttonVars, resultVars, summaryVars,
                                    summaryContainerHidden, alertOpen, currentSystemPrompt,
                                    harnessVars>>

\* The wait is over: the loop condition is tested and the next fetch issued.
TimerFires(c) ==
    /\ ~alertOpen
    /\ gen[c].pc = "wait"
    /\ IF LoopContinues(gen[c].retryCount)
       THEN /\ gen' = [gen EXCEPT ![c].pc = "fetch", ![c].attempts = @ + 1]
            /\ UNCHANGED <<checkboxVars, buttonVars, resultVars, summaryVars,
                           summaryContainerHidden, alertOpen, currentSystemPrompt,
                           harnessVars>>
       ELSE /\ gen' = [gen EXCEPT ![c] = IdleGen]
            /\ ReturnedUndefined(c)

(***************************************************************************)
(* The page.                                                               *)
(***************************************************************************)
Submit == \E rawQuery \in QueryInputs, rawSystem \in SystemInputs : handleFormSubmit(rawQuery, rawSystem)

PrimaryAttempt == \E resp \in PageResponses : Attempt("primary", resp)

PrimaryTimer == TimerFires("primary")

SummaryAttempt == \E resp \in SummaryResponses : Attempt("summary", resp)

SummaryTimer == TimerFires("summary")

Next ==
    \/ ToggleStructured
    \/ ToggleGrounding
    \/ Submit
    \/ handleSummarize
    \/ DismissAlert
    \/ closeSummary
    \/ PrimaryAttempt
    \/ PrimaryTimer
    \/ SummaryAttempt
    \/ SummaryTimer

Spec == Init /\ [][Next]_vars

(***************************************************************************)
(* The generation client alone: generateResponse is called directly, with  *)
(* any arguments, and the provider answers anything.                       *)
(***************************************************************************)
ClientQueries == { "What is 2+2?" }

ClientSystemPrompts == { "", "Be brief." }

ClientCall ==
    \E userQuery \in ClientQueries, systemPrompt \in ClientSystemPrompts,
       isGrounded \in BOOLEAN, isStructured \in BOOLEAN :
        /\ gen["direct"].pc = "idle"
        /\ generateResponse("direct", userQuery, systemPrompt, isGrounded, isStructured)
        /\ outcome' = [NoOutcome EXCEPT !.status = "pending"]
        /\ UNCHANGED <<checkboxVars, buttonVars, resultVars, summaryVars,
                       summaryContainerHidden, alertOpen, currentSystemPrompt, lastResolve,
                   summaryOrigin>>

ClientAttempt == \E resp \in ClientResponses : Attempt("direct", resp)

ClientTimer == TimerFires("direct")

NextClient ==
    \/ ClientCall
    \/ ClientAttempt
    \/ ClientTimer

SpecClient == Init /\ [][NextClient]_vars

\* The answers the provider of SpecClientFair draws from: every failure, and
\* every text without grounding metadata.
SettlingResponses ==
    FailingResponses \cup { BodyResponse(TRUE, Str(text), "absent", <<>>) : text \in Texts }

SettlingAttempt == \E resp \in SettlingResponses : Attempt("direct", resp)

NextClientFair ==
    \/ ClientCall
    \/ SettlingAttempt
    \/ ClientTimer

\* generateResponse called directly, with every fetch eventually answered and
\* every timer eventually fired.
SpecClientFair ==
    Init /\ [][NextClientFair]_vars /\ WF_vars(SettlingAttempt) /\ WF_vars(ClientTimer)

(***************************************************************************)
(* The response resolver alone: displayResult is called directly, with any *)
(* arguments, from any prior state of what it writes.                      *)
(***************************************************************************)
MaxSources == 2

SourceA == [uri |-> Str("https://a.example"), title |-> Str("A")]

SourceB == [uri |-> Str("https://b.example"), title |-> Str("B")]

SourceLists == UNION { [1..n -> {SourceA, SourceB}] : n \in 0..MaxSources }

InitResolver ==
    /\ groundingChecked = FALSE
    /\ structuredChecked = FALSE
    /\ jsonSchemaHidden = TRUE
    /\ generateButtonDisabled = FALSE
    /\ buttonText = "Generate Response"
    /\ loadingIndicatorHidden = TRUE
    /\ responseContainer \in { Html("initial", ""), Html("paragraph", TextPlain) }
    /\ citationContainerHidden \in BOOLEAN
    /\ citations \in { <<>>, CitationLinks(<<SourceB>>) }
    /\ summarySectionHidden \in BOOLEAN
    /\ summaryContainerHidden \in BOOLEAN
    /\ summaryText = Html("initial", "")
    /\ summarizeBtnDisabled = FALSE
    /\ summaryLoadingHidden = TRUE
    /\ alertOpen = FALSE
    /\ currentResponse \in { Str(""), Str(TextPlain), Undefined }
    /\ currentSystemPrompt = ""
    /\ gen = [c \in Callers |-> IdleGen]
    /\ outcome = NoOutcome
    /\ lastResolve = NoResolve
    /\ summaryOrigin = NoOrigin

ResolveDirect ==
    \E text \in Texts, sources \in SourceLists, isStructured \in BOOLEAN :
        /\ displayResult(text, sources, isStructured)
        /\ lastResolve' =
              [ called |-> TRUE, tick |-> 1 - lastResolve.tick,
                repeat |-> /\ lastResolve.called
                           /\ lastResolve.text = text
                           /\ lastResolve.sources = sources
                           /\ lastResolve.isStructured = isStructured,
                text |-> text, sources |-> sources, isStructured |-> isStructured ]
        /\ UNCHANGED <<checkboxVars, buttonVars, summaryVars, alertOpen,
                       currentSystemPrompt, gen, outcome, summaryOrigin>>

NextResolver == ResolveDirect

SpecResolver == InitResolver /\ [][NextResolver]_vars

(***************************************************************************)
(* The claims.                                                             *)
(***************************************************************************)
Direct == gen["direct"]

\* C1 (SpecClient): a call with isGrounded and isStructured both true sends a
\* payload with the structured-output directive and without the search tool,
\* and no payload carries both.
C1_StructuredDropsSearchTool ==
    \A c \in Callers :
        gen[c].pc # "idle" =>
            /\ (gen[c].args.isGrounded /\ gen[c].args.isStructured) =>
                    /\ gen[c].payload.generationConfig = <<GenerationConfig>>
                    /\ gen[c].payload.tools = <<>>
            /\ ~(gen[c].payload.tools # <<>> /\ gen[c].payload.generationConfig # <<>>)

BackoffDelays == <<2000, 4000, 8000, 16000>>

\* C2 (SpecClient): while every attempt fails, each attempt after the first is
\* preceded by exactly one wait, of 2000, 4000, 8000 and 16000 ms in turn; the
\* call fails permanently at the 5th failed attempt, after exactly 5 attempts
\* and those 4 waits, with no wait after it; the loop never runs out.
C2_FiveAttemptsThenFail ==
    /\ Direct.pc = "fetch" =>
            /\ Direct.attempts = Direct.retryCount + 1
            /\ Direct.attempts <= 5
            /\ Direct.delays = SubSeq(BackoffDelays, 1, Direct.attempts - 1)
    /\ Direct.pc = "wait" =>
            /\ Direct.attempts = Direct.retryCount
            /\ Direct.attempts <= 4
            /\ Direct.delays = SubSeq(BackoffDelays, 1, Direct.attempts)
    /\ outcome.status = "rejected" =>
            /\ outcome.attempts = 5
            /\ outcome.delays = BackoffDelays
    /\ outcome.status # "undefined"

C2_Witness ==
    /\ outcome.status = "rejected"
    /\ outcome.attempts = 5
    /\ Len(outcome.delays) = 4

ErrorKinds ==
    { "NetworkError", "HttpStatusError", "BodyError", "NoCandidateError", "EmptyContentError" }

\* C3 as claimed (SpecClient): the terminal error carries the error of the 5th
\* attempt.
C3_TerminalErrorWrapsCause ==
    outcome.status = "rejected" => outcome.error.cause = outcome.lastError

\* C3 as amended (SpecClient): the terminal error carries only the fixed
\* max-retries message, whatever error the 5th attempt caught; that error is
\* not carried by it.
C3_TerminalErrorIsFixedMessage ==
    outcome.status = "rejected" =>
        /\ outcome.lastError \in ErrorKinds
        /\ outcome.error.message = MaxRetriesMessage
        /\ outcome.error.cause = "none"

C3_Witness ==
    /\ outcome.status = "rejected"
    /\ outcome.lastError = "HttpStatusError"
    /\ outcome.error.message = MaxRetriesMessage

\* A uri or title is present when it is a non-empty string.
Present(value) == value.t = "string" /\ value.v # ""

RECURSIVE PresentPairs(_)
\* The {uri, title} pairs of the attributions that have both, in order.
PresentPairs(attributions) ==
    IF attributions = <<>>
    THEN <<>>
    ELSE LET first == Head(attributions)
             rest == PresentPairs(Tail(attributions))
         IN  IF first.web /\ Present(first.uri) /\ Present(first.title)
             THEN <<[uri |-> first.uri, title |-> first.title]>> \o rest
             ELSE rest

\* C4 (SpecClient): the sources returned for a response with grounding
\* attributions are exactly the attributions with both uri and title present,
\* in their original order.
C4_SourcesAreAttributionsWithBoth ==
    (outcome.status = "fulfilled" /\ outcome.response.groundingMetadata = "attributions") =>
        outcome.sources = PresentPairs(outcome.response.attributions)

C4_Witness ==
    /\ outcome.status = "fulfilled"
    /\ outcome.response.attributions = <<AttrB, AttrOnlyUri, AttrA>>
    /\ outcome.sources = <<SourceB, SourceA>>

\* C5 as claimed (SpecClient): a call with isGrounded false, or a response
\* without groundingMetadata, yields no sources.
C5_SourcesOnlyWhenGrounded ==
    ( /\ outcome.status = "fulfilled"
      /\ (~outcome.args.isGrounded \/ outcome.response.groundingMetadata = "absent") ) =>
        outcome.sources = <<>>

\* C5 as amended (SpecClient): the sources are empty exactly when the response
\* carries no attribution with both uri and title, whether or not grounding
\* was requested; a response without groundingMetadata yields no sources.
C5_SourcesFollowResponse ==
    outcome.status = "fulfilled" =>
        /\ outcome.response.groundingMetadata = "absent" => outcome.sources = <<>>
        /\ (outcome.sources = <<>>) <=>
                \/ outcome.response.groundingMetadata # "attributions"
                \/ PresentPairs(outcome.response.attributions) = <<>>

C5_Witness ==
    /\ outcome.status = "fulfilled"
    /\ ~outcome.args.isGrounded
    /\ outcome.sources = <<SourceA>>

\* C6 as claimed (SpecResolver): after displayResult in structured mode with a
\* text that parses as JSON, the final_summary value is displayed and is the
\* value of currentResponse.
C6_ParsedJsonShowsFinalSummary ==
    ( /\ lastResolve.called
      /\ lastResolve.isStructured
      /\ JSONParse(lastResolve.text).t # "SyntaxError" ) =>
        /\ responseContainer =
              Html("code_block", JSToString(JSONParse(lastResolve.text).final_summary))
        /\ currentResponse = JSONParse(lastResolve.text).final_summary

\* C6 as amended (SpecResolver): the same for a text that parses as JSON to a
\* value other than null (the value's final_summary property, undefined when
\* it has none, is displayed as a string and stored as it is); the JSON text
\* null takes the parse-failure path and currentResponse is that text.
C6_NonNullJsonShowsFinalSummary ==
    (lastResolve.called /\ lastResolve.isStructured) =>
        /\ JSONParse(lastResolve.text).t \notin { "SyntaxError", "null" } =>
                /\ responseContainer =
                      Html("code_block",
                           JSToString(JSONParse(lastResolve.text).final_summary))
                /\ currentResponse = JSONParse(lastResolve.text).final_summary
        /\ JSONParse(lastResolve.text).t = "null" =>
                /\ responseContainer = Html("parse_error", lastResolve.text)
                /\ currentResponse = Str(lastResolve.text)

C6_Witness ==
    /\ lastResolve.called
    /\ lastResolve.isStructured
    /\ lastResolve.text = TextJson
    /\ responseContainer = Html("code_block", "Answer: 4")
    /\ currentResponse = Str("Answer: 4")

\* A step that is a displayResult call in structured mode with a text that
\* JSON.parse rejects.
ParseFailureStep ==
    /\ lastResolve' # lastResolve
    /\ lastResolve'.isStructured
    /\ JSONParse(lastResolve'.text).t = "SyntaxError"

\* C7 as claimed (SpecResolver): on a parse failure the raw text is displayed
\* with the error indicator and the call leaves currentResponse as it was.
C7_ParseFailureLeavesResponse ==
    [][ ParseFailureStep =>
            /\ responseContainer' = Html("parse_error", lastResolve'.text)
            /\ currentResponse' = currentResponse ]_vars

\* C7 as amended (SpecResolver): on a parse failure the raw text is displayed
\* with the error indicator and currentResponse is the raw text.
C7_ParseFailureStoresRawText ==
    [][ ParseFailureStep =>
            /\ responseContainer' = Html("parse_error", lastResolve'.text)
            /\ currentResponse' = Str(lastResolve'.text) ]_vars

C7_Witness ==
    /\ lastResolve.called
    /\ lastResolve.isStructured
    /\ lastResolve.text = TextOops
    /\ responseContainer = Html("parse_error", TextOops)
    /\ currentResponse = Str(TextOops)

\* What displayResult writes.
ResolvedOutput ==
    <<responseContainer, citations, citationContainerHidden, summaryContainerHidden,
      summarySectionHidden, currentResponse>>

\* C8 (SpecResolver): a displayResult call with the arguments of the call
\* before it leaves the displayed output and currentResponse as that call left
\* them.
C8_ResolveIdempotent ==
    [][ (lastResolve' # lastResolve /\ lastResolve'.repeat) =>
            ResolvedOutput' = ResolvedOutput ]_vars

C8_Witness ==
    /\ lastResolve.repeat
    /\ lastResolve.sources = <<SourceA, SourceB>>
    /\ Len(citations) = 2
    /\ ~citationContainerHidden

\* Everything but alertOpen.
AllButAlert ==
    <<checkboxVars, buttonVars, resultVars, summaryVars, summaryContainerHidden,
      currentSystemPrompt, gen, harnessVars>>

\* C9 (Spec): handleSummarize with an empty currentResponse raises the
\* nothing-to-summarize alert and changes nothing else (no fetch, the
\* summarize control and the stored state as they were); no summarize call
\* starts while currentResponse is empty.
C9_NothingToSummarizeRejected ==
    [][ /\ (alertOpen' /\ ~alertOpen) => (~Truthy(currentResponse) /\ UNCHANGED AllButAlert)
        /\ (gen["summary"].pc = "idle" /\ gen'["summary"].pc # "idle") =>
                Truthy(currentResponse) ]_vars

C9_Witness ==
    /\ alertOpen
    /\ currentResponse = Undefined
    /\ gen["summary"].pc = "idle"
    /\ ~summarizeBtnDisabled

\* C10 (Spec): a submission rejected for its empty query starts no call, does
\* not enter the loading state and leaves currentResponse and
\* currentSystemPrompt as they were; no primary call starts with a query that
\* is empty after trimming.
C10_EmptyQueryRejected ==
    [][ /\ (responseContainer'.kind = "query_error" /\ responseContainer.kind # "query_error") =>
                UNCHANGED <<gen, buttonVars, currentResponse, currentSystemPrompt>>
        /\ (gen["primary"].pc = "idle" /\ gen'["primary"].pc # "idle") =>
                Trim(gen'["primary"].args.userQuery) # "" ]_vars

C10_Witness ==
    /\ responseContainer = Html("query_error", "Please enter a user query.")
    /\ gen["primary"].pc = "idle"
    /\ ~generateButtonDisabled
    /\ loadingIndicatorHidden

\* A provider answer that makes the attempt fail: a transport error, a status
\* that is not ok, a body that is no JSON, no candidate, no or empty text.
IsFailure(resp) ==
    \/ resp.kind \in { "reject", "status", "badbody" }
    \/ ~resp.hasCandidate
    \/ ~Present(resp.text)

\* A step in which the call of caller c ends.
CallEnds(c) == gen[c].pc # "idle" /\ gen'[c].pc = "idle"

\* A step in which the 5th attempt of caller c fails on answer resp.
LastAttemptFails(c, resp) ==
    /\ gen[c].pc = "fetch"
    /\ gen[c].retryCount = 4
    /\ IsFailure(resp)
    /\ Attempt(c, resp)

\* A step in which the primary call returns a text that the structured branch
\* of displayResult cannot resolve.
StructuredParseFails(resp) ==
    /\ gen["primary"].pc = "fetch"
    /\ gen["primary"].args.isStructured
    /\ ~IsFailure(resp)
    /\ JSONParse(resp.text.v).t \in { "SyntaxError", "null" }
    /\ Attempt("primary", resp)

\* C11 (Spec): when a started handleFormSubmit or handleSummarize ends, its
\* control is enabled again and its loading indicator hidden; when it ends
\* because the retries are exhausted or because the structured parse fails,
\* an error message is displayed.
C11_FailureLeavesVisibleError ==
    [][ /\ CallEnds("primary") =>
                /\ ~generateButtonDisabled'
                /\ loadingIndicatorHidden'
                /\ buttonText' = "Generate Response"
                /\ responseContainer'.kind # "loading"
                /\ \A resp \in PageResponses :
                        /\ LastAttemptFails("primary", resp) =>
                                responseContainer' =
                                    Html("generation_failed",
                                         "Max retries reached. Failed to generate content.")
                        /\ StructuredParseFails(resp) =>
                                responseContainer' = Html("parse_error", resp.text.v)
        /\ CallEnds("summary") =>
                /\ ~summarizeBtnDisabled'
                /\ summaryLoadingHidden'
                /\ \A resp \in SummaryResponses :
                        LastAttemptFails("summary", resp) =>
                            /\ summaryText' =
                                  Html("summary_failed",
                                       "Max retries reached. Failed to generate content.")
                            /\ ~summaryContainerHidden' ]_vars

C11_Witness ==
    /\ gen["primary"].pc = "idle"
    /\ gen["summary"].pc = "idle"
    /\ responseContainer.kind = "generation_failed"
    /\ ~generateButtonDisabled
    /\ loadingIndicatorHidden
    /\ summaryText.kind = "summary_failed"
    /\ ~summarizeBtnDisabled
    /\ summaryLoadingHidden

FailingClientResponses == { resp \in ClientResponses : IsFailure(resp) }

\* C13 (SpecClient): an attempt that fails, whatever the failure (transport
\* error, status not ok, unreadable body, no candidate, missing or empty
\* text), counts as one attempt and is followed by the same wait, or, if it
\* is the 5th, by the rejection; only a failure puts off the result; the
\* first attempt that succeeds, which is one of the first 5, ends the call
\* with its text, with no attempt or wait after it.
C13_FailuresRetriedAlike ==
    [][ Direct.pc = "fetch" =>
          /\ \A resp \in FailingClientResponses :
                Attempt("direct", resp) =>
                    IF Direct.attempts < 5
                    THEN /\ gen'["direct"] =
                               [Direct EXCEPT
                                   !.pc = "wait",
                                   !.retryCount = Direct.retryCount + 1,
                                   !.delays = Append(Direct.delays,
                                                     BackoffDelays[Direct.attempts])]
                         /\ outcome' = outcome
                    ELSE /\ gen'["direct"] = IdleGen
                         /\ outcome'.status = "rejected"
                         /\ outcome'.attempts = 5
          /\ outcome'.status # "fulfilled" =>
                \E resp \in FailingClientResponses : Attempt("direct", resp)
          /\ outcome'.status = "fulfilled" =>
                /\ outcome'.response \in ClientResponses \ FailingClientResponses
                /\ Attempt("direct", outcome'.response)
                /\ gen'["direct"] = IdleGen
                /\ outcome'.text = outcome'.response.text.v
                /\ outcome'.attempts = Direct.attempts
                /\ outcome'.attempts \in 1..5
                /\ outcome'.delays = Direct.delays ]_vars

C13_Witness ==
    /\ outcome.status = "fulfilled"
    /\ outcome.attempts = 3
    /\ Len(outcome.delays) = 2
    /\ Direct.pc = "idle"

\* C14 (Spec): the grounding and the structured checkbox are never both
\* checked, so no primary request has isGrounded and isStructured both true;
\* the JSON-schema display is visible exactly when the structured checkbox is
\* checked.
C14_CheckboxesExclusive ==
    /\ ~(groundingChecked /\ structuredChecked)
    /\ gen["primary"].pc # "idle" =>
            /\ ~(gen["primary"].args.isGrounded /\ gen["primary"].args.isStructured)
            /\ ~(gen["primary"].payload.tools # <<>>
                    /\ gen["primary"].payload.generationConfig # <<>>)
    /\ ~jsonSchemaHidden <=> structuredChecked

C14_Witness ==
    /\ gen["primary"].pc # "idle"
    /\ gen["primary"].args.isGrounded
    /\ structuredChecked
    /\ ~groundingChecked
    /\ ~jsonSchemaHidden

\* A step in which caller c starts a call of generateResponse.
CallStarts(c) ==
    /\ gen'[c] # gen[c]
    /\ gen'[c].pc = "fetch"
    /\ gen'[c].attempts = 1

\* C15 (Spec): while the call of an action is in flight (first fetch issued,
\* not yet returned or thrown, waits included) the action's control is
\* disabled, and an action's call starts only when none of its calls is in
\* flight.
C15_ControlDisabledInFlight ==
    [][ /\ gen'["primary"].pc # "idle" => generateButtonDisabled'
        /\ gen'["summary"].pc # "idle" => summarizeBtnDisabled'
        /\ CallStarts("primary") =>
                gen["primary"].pc = "idle" /\ ~generateButtonDisabled
        /\ CallStarts("summary") =>
                gen["summary"].pc = "idle" /\ ~summarizeBtnDisabled ]_vars

C15_Witness ==
    /\ gen["primary"].pc = "wait"
    /\ gen["primary"].retryCount = 2
    /\ gen["summary"].pc = "fetch"
    /\ gen["summary"].retryCount = 4
    /\ generateButtonDisabled
    /\ summarizeBtnDisabled

\* A step in which the primary call returns and displayResult shows its
\* result without an error indicator.
PrimaryResolves ==
    /\ CallEnds("primary")
    /\ responseContainer'.kind \in { "code_block", "paragraph" }

\* C16 as claimed (Spec): currentResponse and currentSystemPrompt change
\* only in a step that resolves a primary result successfully; a rejected
\* query, a failed generation and a failed structured parse change neither.
C16_PairChangesOnlyOnSuccess ==
    [][ (currentResponse' # currentResponse
            \/ currentSystemPrompt' # currentSystemPrompt) => PrimaryResolves ]_vars

\* C16 as amended (Spec): currentResponse changes only when displayResult
\* runs on a returned primary result, and a failed structured parse stores
\* the raw text; currentSystemPrompt changes only when a primary action with
\* a non-empty query starts, to the submitted system prompt, whatever the
\* outcome of the action; a rejected query changes neither, a failed
\* generation does not change currentResponse; the summarize request is built
\* from currentResponse.
C16_PairChangesAtStartAndDisplay ==
    [][ /\ currentResponse' # currentResponse =>
                /\ CallEnds("primary")
                /\ responseContainer'.kind \in { "code_block", "paragraph", "parse_error" }
        /\ responseContainer'.kind = "parse_error" =>
                currentResponse' = Str(responseContainer'.text)
        /\ currentSystemPrompt' # currentSystemPrompt => CallStarts("primary")
        /\ CallStarts("primary") =>
                currentSystemPrompt' = gen'["primary"].args.systemPrompt
        /\ gen'["primary"].pc # "idle" =>
                currentSystemPrompt' = gen'["primary"].args.systemPrompt
        /\ responseContainer'.kind \in { "query_error", "generation_failed" } =>
                currentResponse' = currentResponse
        /\ (responseContainer'.kind = "query_error"
                /\ responseContainer # responseContainer') =>
                currentSystemPrompt' = currentSystemPrompt
        /\ CallStarts("summary") =>
                gen'["summary"].args.userQuery = SummaryPrompt(currentResponse) ]_vars

C16_Witness ==
    /\ gen["primary"].pc = "idle"
    /\ responseContainer.kind = "generation_failed"
    /\ currentSystemPrompt = "Be brief."
    /\ currentResponse = Str("")

\* The answers of the page's provider that return a summary.
ReturnedSummaries == { resp \in SummaryResponses : ~IsFailure(resp) }

C18_SummarizeOverlapsPrimary ==
    /\ (gen["primary"].pc # "idle" /\ ~alertOpen /\ ~summarizeBtnDisabled
            /\ Truthy(currentResponse)) =>
            ENABLED (handleSummarize /\ gen'["summary"].pc = "fetch")
    /\ (gen["primary"].pc = "fetch" /\ gen["summary"].pc # "idle" /\ ~alertOpen) =>
            ENABLED (PrimaryAttempt /\ gen'["primary"].pc = "idle"
                        /\ currentResponse' # currentResponse
                        /\ gen'["summary"] = gen["summary"])
    /\ gen["summary"].pc # "idle" =>
            /\ summaryOrigin.prompt = gen["summary"].args.userQuery
            /\ ~summaryOrigin.shown
    /\ summaryOrigin.shown =>
            /\ summaryText.kind = "summary"
            /\ gen["summary"].pc = "idle"
            /\ \E response \in { Str(text) : text \in PageTexts \cup { "Answer: 4" } } :
                    summaryOrigin.prompt = SummaryPrompt(response)

C18_Witness ==
    /\ summaryOrigin.shown
    /\ summaryOrigin.duringPrimary
    /\ summaryOrigin.prompt = SummaryPrompt(Str(TextPlain))
    /\ summaryText = Html("summary", "Sum<br>mary")
    /\ ~summaryContainerHidden
    /\ currentResponse = Str("Answer: 4")
    /\ responseContainer = Html("code_block", "Answer: 4")
    /\ gen["primary"].pc = "idle"
    /\ gen["summary"].pc = "idle"

\* C19 (SpecClientFair): every call of generateResponse settles; it returns
\* a non-empty text, or throws the max-retries error after its 5th failed
\* attempt; it never resolves with undefined.
C19_CallSettles ==
    /\ (outcome.status = "pending") ~> (outcome.status \in { "fulfilled", "rejected" })
    /\ [](outcome.status \in { "none", "pending", "fulfilled", "rejected" })
    /\ [](Direct.pc # "idle" <=> outcome.status = "pending")
    /\ [](outcome.status = "fulfilled" =>
                /\ outcome.text # ""
                /\ outcome.attempts \in 1..5)
    /\ [](outcome.status = "rejected" =>
                /\ outcome.error.message =
                      "Max retries reached. Failed to generate content."
                /\ outcome.attempts = 5
                /\ IsFailure(outcome.response))

C19_Witness ==
    /\ outcome.status = "fulfilled"
    /\ outcome.attempts = 5
    /\ outcome.text = TextJson
    /\ Direct.pc = "idle"

\* C20 (Spec): once a primary result is displayed without an error indicator
\* (as a paragraph or as a code block), currentResponse is a non-empty
\* string, so handleSummarize does not answer that there is nothing to
\* summarize.
C20_DisplayedResultIsSummarizable ==
    (gen["primary"].pc = "idle"
        /\ responseContainer.kind \in { "code_block", "paragraph" }) =>
        /\ currentResponse.t = "string"
        /\ currentResponse.v # ""
        /\ ~NothingToSummarize(currentResponse)

====
